---- MODULE Spec2Model ----
(***************************************************************************)
(* The pipelined multi-core RISC-V simulator of src/simulator.cpp          *)
(* (second translation unit of the file, lines 167-727): operand           *)
(* resolution, the per-core five-slot pipeline, hazard detection,          *)
(* forwarding, the latency-aware Execute stage and the global cycle loop.  *)
(*                                                                         *)
(* One step of the model is one block of RiscVSimulator::execute(): the    *)
(* loop head, the per-core activity test, each of the five stage blocks,   *)
(* the new-instruction fetch and the advance of the range-for to the next  *)
(* core.  The configuration calls of main() are steps of their own.        *)
(***************************************************************************)
EXTENDS Integers, Sequences, FiniteSets, TLC

(***************************************************************************)
(* Bounds of the model and constants of the program.                       *)
(***************************************************************************)
NUM_CORES == 4

NUM_REGS == 32

MaxLen == 4

MaxLat == 2

MaxCycles == 14

\* words of one core's memory partition (MEMORY_SIZE / NUM_CORES, 1024 in the
\* source)
PartitionSize == 3

MEMORY_SIZE == NUM_CORES * PartitionSize

MemIndex == 0 .. (MEMORY_SIZE - 1)

INT_MAX == 2147483647

CoreIds == 0 .. (NUM_CORES - 1)

Regs == 0 .. (NUM_REGS - 1)

(***************************************************************************)
(* Program text.  A token is a sequence of one-character strings, a line   *)
(* is an opcode followed by its whitespace-separated argument tokens.      *)
(***************************************************************************)
Line(op, a) == [opcode |-> op, args |-> a]

\* iss >> opcode >> arg1 >> arg2 >> arg3 : a missing field is the empty string
Arg(line, k) == IF k <= Len(line.args) THEN line.args[k] ELSE << >>

CharVal(c) ==
    CASE c = "0" -> 0 [] c = "1" -> 1 [] c = "2" -> 2 [] c = "3" -> 3
      [] c = "4" -> 4 [] c = "5" -> 5 [] c = "6" -> 6 [] c = "7" -> 7
      [] c = "8" -> 8 [] c = "9" -> 9
      [] c \in {"a", "A"} -> 10 [] c \in {"b", "B"} -> 11
      [] c \in {"c", "C"} -> 12 [] c \in {"d", "D"} -> 13
      [] c \in {"e", "E"} -> 14 [] c \in {"f", "F"} -> 15
      [] OTHER -> 36

\* number of leading characters of tok, from position p on, that are digits of the base
RECURSIVE DigitRun(_, _, _)
DigitRun(tok, p, base) ==
    IF p <= Len(tok) /\ CharVal(tok[p]) < base
    THEN 1 + DigitRun(tok, p + 1, base)
    ELSE 0

\* magnitudes that an int cannot hold as a positive value
EXACTLY_2_31 == -2

OVER_2_31 == -1

\* one digit more on the magnitude prev, as strtol accumulates it; the two
\* magnitudes above INT_MAX are kept apart (2^31 negates to INT_MIN)
Accumulate(prev, d, base) ==
    IF prev < 0 THEN OVER_2_31
    ELSE IF prev < INT_MAX \div base \/ (prev = INT_MAX \div base /\ d <= INT_MAX % base)
         THEN prev * base + d
         ELSE IF \/ (prev = INT_MAX \div base /\ d = (INT_MAX % base) + 1)
                 \/ (prev = (INT_MAX \div base) + 1 /\ INT_MAX % base = base - 1 /\ d = 0)
              THEN EXACTLY_2_31
              ELSE OVER_2_31

\* value of the n digits of tok that start at position p
RECURSIVE DigitsValue(_, _, _, _)
DigitsValue(tok, p, n, base) ==
    IF n = 0 THEN 0
    ELSE Accumulate(DigitsValue(tok, p, n - 1, base), CharVal(tok[p + n - 1]), base)

\* position of the first digit: after an optional sign and, in base 16, an
\* optional 0x that a hexadecimal digit follows
DigitStart(tok, p0, base) ==
    IF /\ base = 16
       /\ Len(tok) >= p0 + 2
       /\ tok[p0] = "0"
       /\ tok[p0 + 1] \in {"x", "X"}
       /\ CharVal(tok[p0 + 2]) < 16
    THEN p0 + 2
    ELSE p0

\* the outcome of std::stoi for a run of n digits of magnitude mag
StoiResult(neg, n, mag) ==
    IF n = 0 THEN [err |-> "invalid_argument", val |-> 0]
    ELSE IF mag = OVER_2_31 \/ (mag = EXACTLY_2_31 /\ ~neg)
         THEN [err |-> "out_of_range", val |-> 0]
         ELSE IF mag = EXACTLY_2_31 THEN [err |-> "none", val |-> (0 - INT_MAX) - 1]
         ELSE [err |-> "none", val |-> IF neg THEN 0 - mag ELSE mag]

StoiDigits(tok, neg, p, n, base) == StoiResult(neg, n, DigitsValue(tok, p, n, base))

StoiFrom(tok, neg, p, base) == StoiDigits(tok, neg, p, DigitRun(tok, p, base), base)

\* std::stoi(str, nullptr, base): optional sign, optional 0x prefix in base 16,
\* the longest run of digits; no digit -> invalid_argument, a value outside int
\* -> out_of_range
stoi(tok, base) ==
    StoiFrom(tok,
             Len(tok) >= 1 /\ tok[1] = "-",
             DigitStart(tok, IF Len(tok) >= 1 /\ tok[1] \in {"+", "-"} THEN 2 ELSE 1, base),
             base)

is_valid_register(reg_index) == reg_index >= 0 /\ reg_index < NUM_REGS

\* the result of a resolver call: a value, or an exception that leaves the call
Returned(v) == [thrown |-> FALSE, val |-> v]

Thrown == [thrown |-> TRUE, val |-> 0]

\* extract_reg_index after its stoi call: invalid_argument is caught,
\* out_of_range is not
RegIndexOf(r) ==
    CASE r.err = "invalid_argument" -> Returned(-1)
      [] r.err = "out_of_range" -> Thrown
      [] OTHER -> Returned(IF r.val >= 0 /\ r.val < NUM_REGS THEN r.val ELSE -1)

extract_reg_index(reg_str) ==
    IF reg_str = << >> \/ reg_str[1] # "x"
    THEN Returned(-1)
    ELSE RegIndexOf(stoi(Tail(reg_str), 10))

\* parse_immediate after its stoi call
ImmediateOf(r) ==
    CASE r.err = "invalid_argument" -> Returned(0)
      [] r.err = "out_of_range" -> Thrown
      [] OTHER -> Returned(r.val)

parse_immediate(str) ==
    IF str = << >>
    THEN Returned(0)
    ELSE ImmediateOf(IF Len(str) > 2 /\ str[1] = "0" /\ str[2] \in {"x", "X"}
                     THEN stoi(str, 16)
                     ELSE IF Len(str) > 2 /\ str[1] = "0" /\ str[2] \in {"b", "B"}
                          THEN stoi(Tail(Tail(str)), 2)
                          ELSE stoi(str, 10))

(***************************************************************************)
(* The program texts the runs are drawn from.                              *)
(***************************************************************************)
X(n) == <<"x", n>>

ADD_x4_x1_x2 == Line("ADD", <<X("4"), X("1"), X("2")>>)

SUB_x5_x4_x3 == Line("SUB", <<X("5"), X("4"), X("3")>>)

ADD_x4_x3_x3 == Line("ADD", <<X("4"), X("3"), X("3")>>)

\* "JAL x2 x0 12": the immediate in the third argument field
JAL_x2_x0_12 == Line("JAL", <<X("2"), X("0"), <<"1", "2">>>>)

\* "JAL x1 8": the immediate in the second argument field
JAL_x1_8 == Line("JAL", <<X("1"), <<"8">>>>)

BNE_x1_x3_8 == Line("BNE", <<X("1"), X("3"), <<"8">>>>)

\* a backward branch, taken on every core whose x3 differs from x0
BNE_x3_x0_m8 == Line("BNE", <<X("3"), X("0"), <<"-", "8">>>>)

\* a backward branch whose target is no multiple of 4
BNE_x3_x0_m6 == Line("BNE", <<X("3"), X("0"), <<"-", "6">>>>)

\* "SWAP x0 x3 x4": rs1 and rs2 are read from the second and third field
SWAP_x0_x3_x4 == Line("SWAP", <<X("0"), X("3"), X("4")>>)

\* "SWAP x3 x4": no third field, rs2 is invalid
SWAP_x3_x4 == Line("SWAP", <<X("3"), X("4")>>)

\* an opcode outside the five the simulator knows
NOP == Line("NOP", << >>)

\* "ADD x4 x32 x3": rs1 out of the register file
ADD_x4_x32_x3 == Line("ADD", <<X("4"), <<"x", "3", "2">>, X("3")>>)

\* "SUB x5 x4": no third field
SUB_x5_x4 == Line("SUB", <<X("5"), X("4")>>)

\* "JAL 8": the first field is no register token
JAL_8 == Line("JAL", <<<<"8">>>>)

\* "BNE x3 8": the second field is no register token
BNE_x3_8 == Line("BNE", <<X("3"), <<"8">>>>)

\* "ADD x4 x3 x2147483648": a register number that an int cannot hold
ADD_x4_x3_x2147483648 ==
    Line("ADD", <<X("4"), X("3"),
                  <<"x", "2", "1", "4", "7", "4", "8", "3", "6", "4", "8">>>>)

StraightLines == {ADD_x4_x1_x2, SUB_x5_x4_x3}

\* lines whose instruction has no effect but the default increment
NoEffectLines == {NOP, ADD_x4_x32_x3, SUB_x5_x4, SWAP_x3_x4, JAL_8, BNE_x3_8}

BranchLines == {JAL_x2_x0_12, JAL_x1_8, BNE_x1_x3_8, BNE_x3_x0_m8}

ProgramLines ==
    StraightLines \cup BranchLines \cup NoEffectLines
        \cup {ADD_x4_x3_x3, SWAP_x0_x3_x4, ADD_x4_x3_x2147483648, BNE_x3_x0_m6}

SeqsUpTo(S, n) == UNION {[1 .. k -> S] : k \in 0 .. n}

StraightPrograms == SeqsUpTo(StraightLines, MaxLen)

BranchPrograms ==
    {pre \o <<b>> \o post :
        pre \in {<< >>, <<ADD_x4_x1_x2, SUB_x5_x4_x3>>},
        b \in BranchLines,
        post \in {<< >>, <<ADD_x4_x3_x3>>}}

\* programs around one line without effect
NoEffectPrograms ==
    {pre \o <<n>> : pre \in {<< >>, <<ADD_x4_x3_x3>>}, n \in NoEffectLines}

SwapPrograms ==
    {<<SWAP_x0_x3_x4>>, <<SWAP_x0_x3_x4, SUB_x5_x4_x3>>, <<ADD_x4_x3_x3, SWAP_x0_x3_x4>>}

\* programs with a line whose resolution leaves fetch() by an exception
ThrowingPrograms ==
    {<<ADD_x4_x3_x2147483648>>, <<ADD_x4_x3_x3, SUB_x5_x4_x3, ADD_x4_x3_x2147483648>>}

\* programs whose branch moves the PC to a value that is no multiple of 4
UnalignedPrograms ==
    {<<BNE_x3_x0_m6>>, <<ADD_x4_x3_x3, SUB_x5_x4_x3, BNE_x3_x0_m6>>}

Programs ==
    StraightPrograms \cup BranchPrograms \cup NoEffectPrograms \cup SwapPrograms
        \cup ThrowingPrograms \cup UnalignedPrograms \cup {<<ADD_x4_x3_x3, SUB_x5_x4_x3>>}

\* opcodes whose latency the driver overrides (main(), set_instruction_latency)
ConfiguredOpcodes == {"ADD", "SUB"}

(***************************************************************************)
(* Data model.                                                             *)
(***************************************************************************)
\* struct Instruction; uid is a history tag (the ordinal of the fetch on its
\* core, 0 for a default-constructed instruction) that the code does not hold
Instruction(op, r, s1, s2, i, id, pc_val, u) ==
    [opcode |-> op, rd |-> r, rs1 |-> s1, rs2 |-> s2, imm |-> i,
     core_id |-> id, pc |-> pc_val, uid |-> u]

DefaultInstruction == Instruction("", -1, -1, -1, 0, -1, 0, 0)

\* struct PipelineStage
PipelineStage == [instruction |-> DefaultInstruction, valid |-> FALSE, latency_counter |-> 0]

\* Core without the seed of x3
Core_NoSeed(id) ==
    [registers |-> [r \in Regs |-> 0], pc |-> 0, core_id |-> id, stalled |-> FALSE]

\* struct Core
Core(id) ==
    [registers |-> [r \in Regs |-> IF r = 3 THEN id ELSE 0],
     pc |-> 0, core_id |-> id, stalled |-> FALSE]

DefaultLatencies == [op \in {"ADD", "SUB", "JAL", "BNE", "SWAP"} |-> 1]

VARIABLES
    pcl,                    \* position in main() / RiscVSimulator::execute()
    cur,                    \* the core the range-for of execute() is at
    cores,
    instructions,
    fetch_stage, decode_stage, execute_stage, memory_stage, writeback_stage,
    instruction_latencies,
    forwarding_enabled,
    total_cycles, total_stalls,
    cores_active,
    hist,                   \* history: per core, per uid, the cycle of each move
    snap,                   \* history: the five slots of core cur when its turn began
    memory,
    accessed,               \* history: the memory indices the last sort call touched
    token,                  \* the argument of a resolver call
    outcome,                \* the result of that call
    busy_cycles             \* history: the loop iterations that found a core active

vars == <<pcl, cur, cores, instructions, fetch_stage, decode_stage, execute_stage,
          memory_stage, writeback_stage, instruction_latencies, forwarding_enabled,
          total_cycles, total_stalls, cores_active, hist, snap,
          memory, accessed, token, outcome, busy_cycles>>

\* what the cycle loop and the driver's configuration calls never touch, and
\* the history count that the activity test alone advances
beside == <<memory, accessed, token, outcome, busy_cycles>>

stages == <<fetch_stage, decode_stage, execute_stage, memory_stage, writeback_stage>>

config == <<instructions, instruction_latencies, forwarding_enabled>>

\* the five slots of core i, Fetch first
Slots(i) == <<fetch_stage[i], decode_stage[i], execute_stage[i], memory_stage[i],
              writeback_stage[i]>>

\* history record of one fetched instruction: the program line, the cycles in
\* which it entered Fetch, Decode, Execute, Memory and Writeback and was retired
\* (0: not yet), the latency read at its promotion, how often its effect was
\* applied and the register file its last application left
NewHist(idx, cycle) ==
    [line |-> idx, F |-> cycle, D |-> 0, X |-> 0, M |-> 0, W |-> 0, R |-> 0,
     lat |-> 0, applied |-> 0, after |-> [r \in Regs |-> 0]]

Init ==
    /\ pcl = "load"
    /\ cur = 0
    /\ cores = [i \in CoreIds |-> Core(i)]
    /\ instructions = << >>
    /\ fetch_stage = [i \in CoreIds |-> PipelineStage]
    /\ decode_stage = [i \in CoreIds |-> PipelineStage]
    /\ execute_stage = [i \in CoreIds |-> PipelineStage]
    /\ memory_stage = [i \in CoreIds |-> PipelineStage]
    /\ writeback_stage = [i \in CoreIds |-> PipelineStage]
    /\ instruction_latencies = DefaultLatencies
    /\ forwarding_enabled = TRUE
    /\ total_cycles = 0
    /\ total_stalls = 0
    /\ cores_active = FALSE
    /\ hist = [i \in CoreIds |-> << >>]
    /\ snap = Slots(0)
    /\ memory = [k \in MemIndex |-> 0]
    /\ accessed = {}
    /\ token = << >>
    /\ outcome = Returned(0)
    /\ busy_cycles = 0

(***************************************************************************)
(* main(): the driver's calls before the run.                              *)
(***************************************************************************)
\* load_instructions: the non-empty lines of the file are appended; a file
\* that cannot be opened leaves the sequence empty (the empty program)
LoadInstructions ==
    /\ UNCHANGED beside
    /\ pcl = "load"
    /\ \E p \in Programs : instructions' = instructions \o p
    /\ pcl' = "config"
    /\ UNCHANGED <<cur, cores, stages, instruction_latencies, forwarding_enabled,
                   total_cycles, total_stalls, cores_active, hist, snap>>

EnableForwarding ==
    /\ UNCHANGED beside
    /\ pcl = "config"
    /\ \E enable \in BOOLEAN : forwarding_enabled' = enable
    /\ UNCHANGED <<pcl, cur, cores, stages, instructions, instruction_latencies,
                   total_cycles, total_stalls, cores_active, hist, snap>>

SetInstructionLatency ==
    /\ UNCHANGED beside
    /\ pcl = "config"
    /\ \E opcode \in ConfiguredOpcodes, latency \in 1 .. MaxLat :
          instruction_latencies' = [instruction_latencies EXCEPT ![opcode] = latency]
    /\ UNCHANGED <<pcl, cur, cores, stages, instructions, forwarding_enabled,
                   total_cycles, total_stalls, cores_active, hist, snap>>

\* entry of execute(): bool cores_active = true
StartExecute ==
    /\ UNCHANGED beside
    /\ pcl = "config"
    /\ pcl' = "head"
    /\ cores_active' = TRUE
    /\ UNCHANGED <<cur, cores, stages, config, total_cycles, total_stalls, hist, snap>>

(***************************************************************************)
(* Helpers of the cycle loop.                                              *)
(***************************************************************************)
\* int division of C++ truncates toward zero
TruncDiv(a, b) == IF a >= 0 THEN a \div b ELSE 0 - ((0 - a) \div b)

\* the comparison made on signed values: a negative quotient is below any length
HasText_Signed(pc) == TruncDiv(pc, 4) < Len(instructions)

\* core.pc / 4 < instructions.size(): the quotient is converted to size_t, so
\* a negative quotient compares as a value far above any program length
HasText(pc) == TruncDiv(pc, 4) >= 0 /\ TruncDiv(pc, 4) < Len(instructions)

\* the instruction record fetch() builds from the results of its resolver
\* calls, before the core's id, its PC and the history tag are filled in; an
\* exception of any call leaves fetch
ResolvedRecord(op, rd, rs1, rs2, imm) ==
    [thrown |-> rd.thrown \/ rs1.thrown \/ rs2.thrown \/ imm.thrown,
     instruction |-> [opcode |-> op, rd |-> rd.val, rs1 |-> rs1.val, rs2 |-> rs2.val,
                      imm |-> imm.val, core_id |-> -1, pc |-> 0, uid |-> 0]]

\* the operand resolution of fetch(): rd, rs1, rs2 from arg1, arg2, arg3 and
\* the immediate from arg3
ResolveLine(line) ==
    ResolvedRecord(line.opcode,
                   extract_reg_index(Arg(line, 1)),
                   extract_reg_index(Arg(line, 2)),
                   extract_reg_index(Arg(line, 3)),
                   parse_immediate(Arg(line, 3)))

\* the resolution is a function of the line's text alone: tabulated per line
Resolved == [line \in ProgramLines |-> ResolveLine(line)]

\* fetch(core): the instruction record of the line at index pc/4; u is the
\* history tag it gets
fetch(core, u) ==
    IF HasText(core.pc)
    THEN [Resolved[instructions[TruncDiv(core.pc, 4) + 1]] EXCEPT
             !.instruction.core_id = core.core_id,
             !.instruction.pc = core.pc,
             !.instruction.uid = u]
    ELSE [thrown |-> FALSE, instruction |-> DefaultInstruction]

decode(instruction) == instruction

\* the default PC increment at the end of execute(Instruction&, Core&)
DefaultIncrement(core) == [core EXCEPT !.pc = core.pc + 4]

\* JAL branch: the link register is written, the PC moved by imm, and control
\* leaves the if-chain to the default increment
execute_JAL(instruction, core) ==
    IF is_valid_register(instruction.rd)
    THEN DefaultIncrement(
             [core EXCEPT !.registers = [@ EXCEPT ![instruction.rd] = instruction.pc + 4],
                          !.pc = core.pc + instruction.imm])
    ELSE DefaultIncrement(core)

\* BNE branch whose taken case does not return before the default increment
execute_BNE_Fallthrough(instruction, core) ==
    IF is_valid_register(instruction.rd) /\ is_valid_register(instruction.rs1)
    THEN IF core.registers[instruction.rd] # core.registers[instruction.rs1]
         THEN DefaultIncrement([core EXCEPT !.pc = core.pc + instruction.imm])
         ELSE [core EXCEPT !.pc = core.pc + 4]
    ELSE DefaultIncrement(core)

\* BNE branch whose return is taken with invalid operands as well
execute_BNE_ReturnAlways(instruction, core) ==
    IF is_valid_register(instruction.rd) /\ is_valid_register(instruction.rs1)
    THEN IF core.registers[instruction.rd] # core.registers[instruction.rs1]
         THEN [core EXCEPT !.pc = core.pc + instruction.imm]
         ELSE [core EXCEPT !.pc = core.pc + 4]
    ELSE core

\* BNE branch: with valid operands it returns before the default increment
execute_BNE(instruction, core) ==
    IF is_valid_register(instruction.rd) /\ is_valid_register(instruction.rs1)
    THEN IF core.registers[instruction.rd] # core.registers[instruction.rs1]
         THEN [core EXCEPT !.pc = core.pc + instruction.imm]
         ELSE [core EXCEPT !.pc = core.pc + 4]
    ELSE DefaultIncrement(core)

execute_ADD(instruction, core) ==
    IF /\ is_valid_register(instruction.rd)
       /\ is_valid_register(instruction.rs1)
       /\ is_valid_register(instruction.rs2)
    THEN DefaultIncrement(
             [core EXCEPT !.registers =
                 [@ EXCEPT ![instruction.rd] =
                     core.registers[instruction.rs1] + core.registers[instruction.rs2]]])
    ELSE DefaultIncrement(core)

execute_SUB(instruction, core) ==
    IF /\ is_valid_register(instruction.rd)
       /\ is_valid_register(instruction.rs1)
       /\ is_valid_register(instruction.rs2)
    THEN DefaultIncrement(
             [core EXCEPT !.registers =
                 [@ EXCEPT ![instruction.rd] =
                     core.registers[instruction.rs1] - core.registers[instruction.rs2]]])
    ELSE DefaultIncrement(core)

\* SWAP branch that copies rs2 into rs1 and leaves rs2
execute_SWAP_Copy(instruction, core) ==
    IF is_valid_register(instruction.rs1) /\ is_valid_register(instruction.rs2)
    THEN DefaultIncrement(
             [core EXCEPT !.registers =
                 [@ EXCEPT ![instruction.rs1] = core.registers[instruction.rs2]]])
    ELSE DefaultIncrement(core)

execute_SWAP(instruction, core) ==
    IF is_valid_register(instruction.rs1) /\ is_valid_register(instruction.rs2)
    THEN DefaultIncrement(
             [core EXCEPT !.registers =
                 [@ EXCEPT ![instruction.rs1] = core.registers[instruction.rs2],
                           ![instruction.rs2] = core.registers[instruction.rs1]]])
    ELSE DefaultIncrement(core)

\* execute(Instruction&, Core&): the core after the instruction's effect
execute(instruction, core) ==
    CASE instruction.opcode = "JAL" -> execute_JAL(instruction, core)
      [] instruction.opcode = "BNE" -> execute_BNE(instruction, core)
      [] instruction.opcode = "ADD" -> execute_ADD(instruction, core)
      [] instruction.opcode = "SUB" -> execute_SUB(instruction, core)
      [] instruction.opcode = "SWAP" -> execute_SWAP(instruction, core)
      [] OTHER -> DefaultIncrement(core)

\* one of the three comparisons of check_data_hazards against a later stage
HazardWith(decode_inst, stage) ==
    /\ stage.valid
    /\ stage.instruction.rd # -1
    /\ (decode_inst.rs1 = stage.instruction.rd \/ decode_inst.rs2 = stage.instruction.rd)
    /\ forwarding_enabled = FALSE

\* check_data_hazards whose first exit returns true
check_data_hazards_EarlyTrue(i) ==
    IF ~decode_stage[i].valid
    THEN TRUE
    ELSE \/ HazardWith(decode_stage[i].instruction, execute_stage[i])
         \/ HazardWith(decode_stage[i].instruction, memory_stage[i])
         \/ HazardWith(decode_stage[i].instruction, writeback_stage[i])

\* check_data_hazards without its first exit: the comparisons are made on
\* whatever instruction the Decode slot holds, occupied or not
check_data_hazards_NoEarlyExit(i) ==
    \/ HazardWith(decode_stage[i].instruction, execute_stage[i])
    \/ HazardWith(decode_stage[i].instruction, memory_stage[i])
    \/ HazardWith(decode_stage[i].instruction, writeback_stage[i])

\* check_data_hazards(core): TRUE when a stall is signalled; every TRUE
\* return has incremented total_stalls
check_data_hazards(i) ==
    IF ~decode_stage[i].valid
    THEN FALSE
    ELSE \/ HazardWith(decode_stage[i].instruction, execute_stage[i])
         \/ HazardWith(decode_stage[i].instruction, memory_stage[i])
         \/ HazardWith(decode_stage[i].instruction, writeback_stage[i])

\* a forwarding block that marks the forwarded operands as taken: index -1
ForwardFrom_Taken(decode_inst, stage) ==
    IF stage.valid /\ stage.instruction.rd # -1
    THEN [decode_inst EXCEPT
             !.rs1 = IF decode_inst.rs1 = stage.instruction.rd THEN -1 ELSE @,
             !.rs2 = IF decode_inst.rs2 = stage.instruction.rd THEN -1 ELSE @]
    ELSE decode_inst

\* one block of perform_data_forwarding: the operand indices that equal the
\* producer's rd are assigned that rd
ForwardFrom(decode_inst, stage) ==
    IF stage.valid /\ stage.instruction.rd # -1
    THEN [decode_inst EXCEPT
             !.rs1 = IF decode_inst.rs1 = stage.instruction.rd
                     THEN stage.instruction.rd ELSE @,
             !.rs2 = IF decode_inst.rs2 = stage.instruction.rd
                     THEN stage.instruction.rd ELSE @]
    ELSE decode_inst

\* perform_data_forwarding(core): the Decode slot's instruction afterwards
perform_data_forwarding(i) ==
    IF ~decode_stage[i].valid
    THEN decode_stage[i].instruction
    ELSE ForwardFrom(ForwardFrom(ForwardFrom(decode_stage[i].instruction,
                                             execute_stage[i]),
                                 memory_stage[i]),
                     writeback_stage[i])

\* a lookup that yields 2 whatever the table holds
LatencyOf_Two(opcode) == 2

\* instruction_latencies[opcode]: std::map inserts 0 for an absent key
LatencyOf(opcode) ==
    IF opcode \in DOMAIN instruction_latencies THEN instruction_latencies[opcode] ELSE 0

LatenciesAfterLookup(opcode) ==
    IF opcode \in DOMAIN instruction_latencies
    THEN instruction_latencies
    ELSE [op \in DOMAIN instruction_latencies \cup {opcode} |->
             IF op = opcode THEN 0 ELSE instruction_latencies[op]]

\* the activity test of the sequential variant: program text left, the slots
\* not looked at
IsActive_TextOnly(i) == HasText(cores[i].pc)

\* an activity test that every core passes
IsActive_Always(i) == TRUE

\* the test that makes a core take part in a cycle
IsActive(i) ==
    \/ HasText(cores[i].pc)
    \/ fetch_stage[i].valid
    \/ decode_stage[i].valid
    \/ execute_stage[i].valid
    \/ memory_stage[i].valid
    \/ writeback_stage[i].valid

\* history update: field f of the record of instruction u on core i
Mark(i, u, f, v) == [hist EXCEPT ![i][u][f] = v]

(***************************************************************************)
(* RiscVSimulator::execute(): the cycle loop.                              *)
(***************************************************************************)
\* a loop head that counts only the iterations that follow a busy iteration
LoopHead_CountBusy ==
    /\ UNCHANGED beside
    /\ pcl = "head"
    /\ IF cores_active
       THEN /\ total_cycles < MaxCycles
            /\ cores_active' = FALSE
            /\ total_cycles' = busy_cycles
            /\ cur' = 0
            /\ pcl' = "test"
       ELSE /\ pcl' = "done"
            /\ UNCHANGED <<cores_active, total_cycles, cur>>
    /\ UNCHANGED <<cores, stages, config, total_stalls, hist, snap>>

\* while (cores_active) { cores_active = false; total_cycles++; for (core ...
\* The loop is left when the last cycle found no core active.  Runs that do
\* not halt are cut off after MaxCycles cycles.
LoopHead ==
    /\ UNCHANGED beside
    /\ pcl = "head"
    /\ IF cores_active
       THEN /\ total_cycles < MaxCycles
            /\ cores_active' = FALSE
            /\ total_cycles' = total_cycles + 1
            /\ cur' = 0
            /\ pcl' = "test"
       ELSE /\ pcl' = "done"
            /\ UNCHANGED <<cores_active, total_cycles, cur>>
    /\ UNCHANGED <<cores, stages, config, total_stalls, hist, snap>>

\* if (core.pc / 4 < instructions.size() || fetch_stage[..].valid || ...)
ActiveTest ==
    /\ UNCHANGED <<memory, accessed, token, outcome>>
    /\ pcl = "test"
    /\ busy_cycles' = IF IsActive(cur) /\ ~cores_active
                      THEN busy_cycles + 1
                      ELSE busy_cycles
    /\ IF IsActive(cur)
       THEN cores_active' = TRUE /\ pcl' = "wb"
       ELSE cores_active' = cores_active /\ pcl' = "next"
    /\ snap' = Slots(cur)
    /\ UNCHANGED <<cur, cores, stages, config, total_cycles, total_stalls, hist>>

\* Writeback Stage: the instruction is retired and the slot cleared
WritebackStage ==
    /\ UNCHANGED beside
    /\ pcl = "wb"
    /\ IF writeback_stage[cur].valid
       THEN /\ writeback_stage' = [writeback_stage EXCEPT ![cur].valid = FALSE]
            /\ hist' = Mark(cur, writeback_stage[cur].instruction.uid, "R", total_cycles)
       ELSE UNCHANGED <<writeback_stage, hist>>
    /\ pcl' = "mem"
    /\ UNCHANGED <<cur, cores, fetch_stage, decode_stage, execute_stage, memory_stage,
                   config, total_cycles, total_stalls, cores_active, snap>>

\* a memory_access that stores into the first word of the core's partition
memory_access_Store(instruction, mem) ==
    [mem EXCEPT ![instruction.core_id * PartitionSize] = instruction.pc + 1]

\* memory_access(instruction): the shared memory afterwards; the body is empty
memory_access(instruction, mem) == mem

\* Memory Stage: memory_access() is called, the slot is copied to Writeback
MemoryStage ==
    /\ UNCHANGED <<accessed, token, outcome, busy_cycles>>
    /\ pcl = "mem"
    /\ memory' = IF memory_stage[cur].valid
                 THEN memory_access(memory_stage[cur].instruction, memory)
                 ELSE memory
    /\ IF memory_stage[cur].valid
       THEN /\ writeback_stage' = [writeback_stage EXCEPT ![cur] = memory_stage[cur]]
            /\ memory_stage' = [memory_stage EXCEPT ![cur].valid = FALSE]
            /\ hist' = Mark(cur, memory_stage[cur].instruction.uid, "W", total_cycles)
       ELSE UNCHANGED <<writeback_stage, memory_stage, hist>>
    /\ pcl' = "ex"
    /\ UNCHANGED <<cur, cores, fetch_stage, decode_stage, execute_stage,
                   config, total_cycles, total_stalls, cores_active, snap>>

\* Execute Stage that hands the finished instruction to Writeback, past Memory
ExecuteStage_SkipMemory ==
    /\ UNCHANGED beside
    /\ pcl = "ex"
    /\ IF execute_stage[cur].valid
       THEN IF execute_stage[cur].latency_counter > 1
            THEN /\ execute_stage' = [execute_stage EXCEPT
                                         ![cur].latency_counter = @ - 1]
                 /\ UNCHANGED <<cores, writeback_stage, hist>>
            ELSE /\ cores' = [cores EXCEPT
                                 ![cur] = execute(execute_stage[cur].instruction, cores[cur])]
                 /\ writeback_stage' = [writeback_stage EXCEPT ![cur] = execute_stage[cur]]
                 /\ execute_stage' = [execute_stage EXCEPT ![cur].valid = FALSE]
                 /\ LET u == execute_stage[cur].instruction.uid
                    IN  hist' = [hist EXCEPT ![cur][u].M = total_cycles,
                                             ![cur][u].W = total_cycles,
                                             ![cur][u].applied = @ + 1,
                                             ![cur][u].after =
                                                 execute(execute_stage[cur].instruction,
                                                         cores[cur]).registers]
       ELSE UNCHANGED <<cores, execute_stage, writeback_stage, hist>>
    /\ pcl' = "dec"
    /\ UNCHANGED <<cur, fetch_stage, decode_stage, memory_stage,
                   config, total_cycles, total_stalls, cores_active, snap>>

\* Execute Stage: count down, or apply the effect and copy the slot to Memory
ExecuteStage ==
    /\ UNCHANGED beside
    /\ pcl = "ex"
    /\ IF execute_stage[cur].valid
       THEN IF execute_stage[cur].latency_counter > 1
            THEN /\ execute_stage' = [execute_stage EXCEPT
                                         ![cur].latency_counter = @ - 1]
                 /\ UNCHANGED <<cores, memory_stage, hist>>
            ELSE /\ cores' = [cores EXCEPT
                                 ![cur] = execute(execute_stage[cur].instruction, cores[cur])]
                 /\ memory_stage' = [memory_stage EXCEPT ![cur] = execute_stage[cur]]
                 /\ execute_stage' = [execute_stage EXCEPT ![cur].valid = FALSE]
                 /\ LET u == execute_stage[cur].instruction.uid
                    IN  hist' = [hist EXCEPT ![cur][u].M = total_cycles,
                                             ![cur][u].applied = @ + 1,
                                             ![cur][u].after =
                                                 execute(execute_stage[cur].instruction,
                                                         cores[cur]).registers]
       ELSE UNCHANGED <<cores, execute_stage, memory_stage, hist>>
    /\ pcl' = "dec"
    /\ UNCHANGED <<cur, fetch_stage, decode_stage, writeback_stage,
                   config, total_cycles, total_stalls, cores_active, snap>>

\* Decode Stage: forwarding if enabled, then the slot is copied to Execute
\* with the latency of its opcode
DecodeStage ==
    /\ UNCHANGED beside
    /\ pcl = "dec"
    /\ IF decode_stage[cur].valid
       THEN LET inst == IF forwarding_enabled
                        THEN perform_data_forwarding(cur)
                        ELSE decode_stage[cur].instruction
                decoded_instruction == decode(inst)
                lat == LatencyOf(decoded_instruction.opcode)
            IN  /\ execute_stage' = [execute_stage EXCEPT
                                        ![cur] = [instruction |-> inst,
                                                  valid |-> TRUE,
                                                  latency_counter |-> lat]]
                /\ decode_stage' = [decode_stage EXCEPT
                                       ![cur] = [@ EXCEPT !.instruction = inst,
                                                          !.valid = FALSE]]
                /\ instruction_latencies' = LatenciesAfterLookup(decoded_instruction.opcode)
                /\ hist' = [hist EXCEPT ![cur][inst.uid].X = total_cycles,
                                        ![cur][inst.uid].lat = lat]
       ELSE UNCHANGED <<execute_stage, decode_stage, instruction_latencies, hist>>
    /\ pcl' = "fetch"
    /\ UNCHANGED <<cur, cores, fetch_stage, memory_stage, writeback_stage, instructions,
                   forwarding_enabled, total_cycles, total_stalls, cores_active, snap>>

\* Fetch Stage: the hazard check gates the copy of the slot to Decode; a
\* stall leaves the core's turn (continue)
FetchStage ==
    /\ UNCHANGED beside
    /\ pcl = "fetch"
    /\ IF fetch_stage[cur].valid
       THEN IF check_data_hazards(cur)
            THEN /\ total_stalls' = total_stalls + 1
                 /\ cores' = [cores EXCEPT ![cur].stalled = TRUE]
                 /\ pcl' = "next"
                 /\ UNCHANGED <<fetch_stage, decode_stage, hist>>
            ELSE /\ cores' = [cores EXCEPT ![cur].stalled = FALSE]
                 /\ decode_stage' = [decode_stage EXCEPT ![cur] = fetch_stage[cur]]
                 /\ fetch_stage' = [fetch_stage EXCEPT ![cur].valid = FALSE]
                 /\ hist' = Mark(cur, fetch_stage[cur].instruction.uid, "D", total_cycles)
                 /\ pcl' = "newfetch"
                 /\ UNCHANGED total_stalls
       ELSE /\ pcl' = "newfetch"
            /\ UNCHANGED <<cores, fetch_stage, decode_stage, total_stalls, hist>>
    /\ UNCHANGED <<cur, execute_stage, memory_stage, writeback_stage, config,
                   total_cycles, cores_active, snap>>

\* Fetch new instruction if the core is not stalled; an exception of the
\* resolver is caught nowhere and ends the program
FetchNew ==
    /\ UNCHANGED beside
    /\ pcl = "newfetch"
    /\ IF ~cores[cur].stalled /\ HasText(cores[cur].pc)
       THEN LET u == Len(hist[cur]) + 1
                f == fetch(cores[cur], u)
            IN  IF f.thrown
                THEN /\ pcl' = "terminated"
                     /\ UNCHANGED <<fetch_stage, cores, hist>>
                ELSE /\ fetch_stage' = [fetch_stage EXCEPT
                                           ![cur] = [@ EXCEPT !.instruction = f.instruction,
                                                              !.valid = TRUE]]
                     /\ cores' = [cores EXCEPT ![cur].pc = @ + 4]
                     /\ hist' = [hist EXCEPT
                                    ![cur] = Append(@, NewHist(TruncDiv(cores[cur].pc, 4),
                                                               total_cycles))]
                     /\ pcl' = "next"
       ELSE /\ pcl' = "next"
            /\ UNCHANGED <<fetch_stage, cores, hist>>
    /\ UNCHANGED <<cur, decode_stage, execute_stage, memory_stage, writeback_stage,
                   config, total_cycles, total_stalls, cores_active, snap>>

\* the range-for moves to the next core, or the cycle ends
NextCore ==
    /\ UNCHANGED beside
    /\ pcl = "next"
    /\ IF cur < NUM_CORES - 1
       THEN cur' = cur + 1 /\ pcl' = "test"
       ELSE cur' = cur /\ pcl' = "head"
    /\ UNCHANGED <<cores, stages, config, total_cycles, total_stalls, cores_active,
                   hist, snap>>

Next ==
    \/ LoadInstructions
    \/ EnableForwarding
    \/ SetInstructionLatency
    \/ StartExecute
    \/ LoopHead
    \/ ActiveTest
    \/ WritebackStage
    \/ MemoryStage
    \/ ExecuteStage
    \/ DecodeStage
    \/ FetchStage
    \/ FetchNew
    \/ NextCore

Spec == Init /\ [][Next]_vars

\* the cycle loop is sequential code: it runs as long as it has a next step
FairSpec == Spec /\ WF_vars(Next)

(***************************************************************************)
(* Properties.                                                             *)
(***************************************************************************)
Halted == pcl = "done"

Running == pcl \notin {"load", "config"}

DefaultLatency == \A op \in DOMAIN DefaultLatencies : LatencyOf(op) = 1

EndToEndRun ==
    /\ instructions = <<ADD_x4_x1_x2, SUB_x5_x4_x3>>
    /\ forwarding_enabled
    /\ DefaultLatency

\* C1: with 4 cores, the program ADD x4 x1 x2; SUB x5 x4 x3, forwarding
\* enabled and default latencies, the run halts (the cycle that follows the
\* seventh finds no core active) and at halt core i has x3 = i, x4 = 0, x5 = -i.
C1_EndToEnd ==
    (EndToEndRun /\ Running) =>
        /\ total_cycles <= 8
        /\ (pcl = "head" /\ total_cycles = 8) => ~cores_active
        /\ Halted => \A i \in CoreIds :
                        /\ cores[i].registers[3] = i
                        /\ cores[i].registers[4] = 0
                        /\ cores[i].registers[5] = 0 - i

C1_Witness ==
    /\ EndToEndRun
    /\ Halted
    /\ \A i \in CoreIds : Len(hist[i]) = 2 /\ hist[i][2].applied = 1

\* C2: with forwarding disabled and default latencies, ADD x4 x1 x2 followed
\* by SUB x5 x4 x3 makes every core record exactly one stall, so that the run
\* halts with one stall per core.
C2_OneStallPerCore ==
    (/\ Halted
     /\ instructions = <<ADD_x4_x1_x2, SUB_x5_x4_x3>>
     /\ ~forwarding_enabled
     /\ DefaultLatency) => total_stalls = NUM_CORES

\* C3: with forwarding enabled no stall is ever signalled: the stall counter
\* is 0 and no core's stall flag is set, for every program and latency table.
C3_NoStallWithForwarding ==
    forwarding_enabled =>
        /\ total_stalls = 0
        /\ \A i \in CoreIds : ~cores[i].stalled

\* a consumer has just been promoted from Fetch to Decode, with forwarding
\* enabled, while the producer of one of its operands sits in Execute
C3_Witness ==
    /\ forwarding_enabled
    /\ pcl = "newfetch"
    /\ decode_stage[cur].valid
    /\ hist[cur][decode_stage[cur].instruction.uid].D = total_cycles
    /\ execute_stage[cur].valid
    /\ execute_stage[cur].instruction.rd # -1
    /\ decode_stage[cur].instruction.rs1 = execute_stage[cur].instruction.rd

\* the history records of core i
Fetched(i) == 1 .. Len(hist[i])

\* C4: an instruction promoted into Execute with a positive latency stays in
\* the Execute slot until its effect is applied, which happens exactly once,
\* exactly latency(opcode) cycles after the promotion, and moves it to Memory;
\* also when the next instruction is waiting in Decode.
C4_ExecuteLatency ==
    \A i \in CoreIds : \A u \in Fetched(i) :
        LET h == hist[i][u]
        IN  (h.X > 0 /\ h.lat >= 1) =>
                /\ h.applied <= 1
                /\ h.M > 0 => (h.applied = 1 /\ h.M = h.X + h.lat)
                /\ h.M = 0 => /\ h.applied = 0
                              /\ execute_stage[i].valid
                              /\ execute_stage[i].instruction.uid = u

\* C5: at the end of a core's turn in a cycle, every instruction that was in
\* stage S when the turn began is still in S or in the stage after S (or, from
\* Writeback, retired), and an instruction fetched in the cycle is in Fetch.
C5_OneStagePerCycle ==
    pcl = "next" =>
        /\ \A k \in 1 .. 5 :
              snap[k].valid =>
                  LET u == snap[k].instruction.uid
                      now == Slots(cur)
                  IN  \/ now[k].valid /\ now[k].instruction.uid = u
                      \/ k < 5 /\ now[k + 1].valid /\ now[k + 1].instruction.uid = u
                      \/ k = 5 /\ hist[cur][u].R = total_cycles
        /\ \A u \in Fetched(cur) :
              hist[cur][u].F = total_cycles =>
                  fetch_stage[cur].valid /\ fetch_stage[cur].instruction.uid = u

\* the Execute block is about to apply the effect of the instruction in Execute
Applying(op) ==
    /\ pcl = "ex"
    /\ execute_stage[cur].valid
    /\ execute_stage[cur].latency_counter <= 1
    /\ execute_stage[cur].instruction.opcode = op

\* C6: executing a JAL with a valid rd sets registers[rd] to the fetch-time PC
\* plus 4 and changes the PC by exactly imm in the Execute step.
C6_JumpAndLink ==
    [][(Applying("JAL") /\ is_valid_register(execute_stage[cur].instruction.rd)) =>
          LET inst == execute_stage[cur].instruction
          IN  /\ cores'[cur].registers[inst.rd] = inst.pc + 4
              /\ cores'[cur].pc = cores[cur].pc + inst.imm]_vars

\* C7: executing a BNE with valid rd and rs1 changes the PC in the Execute
\* step by exactly imm when registers[rd] # registers[rs1] and by exactly 4
\* when they are equal, and changes no register.
C7_BranchNotEqual ==
    [][(/\ Applying("BNE")
        /\ is_valid_register(execute_stage[cur].instruction.rd)
        /\ is_valid_register(execute_stage[cur].instruction.rs1)) =>
          LET inst == execute_stage[cur].instruction
              regs == cores[cur].registers
          IN  /\ cores'[cur].pc - cores[cur].pc =
                    (IF regs[inst.rd] # regs[inst.rs1] THEN inst.imm ELSE 4)
              /\ cores'[cur].registers = regs]_vars

\* a taken BNE with an immediate other than 4 has just been applied
C7_Witness ==
    /\ pcl = "dec"
    /\ memory_stage[cur].valid
    /\ LET inst == memory_stage[cur].instruction
       IN  /\ inst.opcode = "BNE"
           /\ hist[cur][inst.uid].M = total_cycles
           /\ is_valid_register(inst.rd) /\ is_valid_register(inst.rs1)
           /\ cores[cur].registers[inst.rd] # cores[cur].registers[inst.rs1]
           /\ inst.imm # 4

\* the program line an instruction record was made from
LineOf(inst) == instructions[TruncDiv(inst.pc, 4) + 1]

\* C8: the immediate of a JAL is read from the second argument field, that of
\* a BNE from the third ("JAL x1 8" yields imm 8).
C8_ImmediatePosition ==
    \A i \in CoreIds :
        fetch_stage[i].valid =>
            LET inst == fetch_stage[i].instruction
            IN  /\ inst.opcode = "JAL" => inst.imm = parse_immediate(Arg(LineOf(inst), 2)).val
                /\ inst.opcode = "BNE" => inst.imm = parse_immediate(Arg(LineOf(inst), 3)).val

NoBranch == \A k \in 1 .. Len(instructions) : instructions[k].opcode \notin {"JAL", "BNE"}

\* C9: for a program of length L without JAL and BNE and default latencies,
\* every core has at halt fetched and executed each of the L lines exactly
\* once, in program order from line 0.
C9_EveryLineOnce ==
    (Halted /\ NoBranch /\ DefaultLatency) =>
        \A i \in CoreIds :
            /\ Len(hist[i]) = Len(instructions)
            /\ \A u \in Fetched(i) : hist[i][u].line = u - 1 /\ hist[i][u].applied = 1

\* no retired instruction left Writeback before it had entered Fetch, Decode,
\* Execute, Memory and Writeback in that order, each in a later cycle
RetiredInOrder ==
    \A i \in CoreIds : \A u \in Fetched(i) :
        LET h == hist[i][u]
        IN  h.R > 0 => /\ 0 < h.F /\ h.F < h.D /\ h.D < h.X /\ h.X < h.M
                       /\ h.M < h.W /\ h.W < h.R
                       /\ h.R >= h.F + 5

\* C10: a program without JAL and BNE, run with all latencies 1, terminates
\* (the run is not ended inside the loop and comes to a cycle that finds no
\* core active), and no instruction is retired earlier than the fifth cycle
\* after its fetch, having occupied the five stages in order.
C10_TerminationAndDrain ==
    /\ []((NoBranch /\ DefaultLatency) => RetiredInOrder)
    /\ []((NoBranch /\ DefaultLatency) => pcl # "terminated")
    /\ (pcl = "head" /\ NoBranch /\ DefaultLatency) ~> Halted

C10_Witness ==
    /\ Halted
    /\ NoBranch
    /\ DefaultLatency
    /\ Len(instructions) >= 3
    /\ \A i \in CoreIds : hist[i][1].R = hist[i][1].F + 5

(***************************************************************************)
(* The halt condition and the empty program.                               *)
(***************************************************************************)
\* pc/4 indexes an existing program line
ProgramTextLeft(i) ==
    \E k \in 1 .. Len(instructions) : TruncDiv(cores[i].pc, 4) = k - 1

SlotOccupied(i) == \E k \in 1 .. 5 : Slots(i)[k].valid

ActiveCore(i) == ProgramTextLeft(i) \/ SlotOccupied(i)

InCoreTurn == pcl \in {"wb", "mem", "ex", "dec", "fetch", "newfetch"}

\* C11: the loop is left exactly when the cycle just run found no core
\* active, a core being active iff pc/4 indexes an existing program line or
\* one of its five slots is occupied; so at halt every slot of every core is
\* empty and no core has program text at its PC, and the loop is never left
\* while a slot is occupied.
C11_HaltCondition ==
    /\ [](Halted => \A i \in CoreIds : ~ActiveCore(i))
    /\ []((pcl = "head" /\ total_cycles > 0 /\ ~cores_active) =>
              \A i \in CoreIds : ~ActiveCore(i))
    /\ [](InCoreTurn => cores_active)
    /\ [][pcl = "head" => (pcl' = "done" <=> ~cores_active)]_vars
    /\ [][pcl = "test" => (cores_active' <=> (cores_active \/ ActiveCore(cur)))]_vars
    /\ [][(InCoreTurn \/ pcl = "next") => cores_active' = cores_active]_vars

\* the loop has been left after a run in which instructions were retired
C11_Witness ==
    /\ Halted
    /\ total_cycles >= 6
    /\ \A i \in CoreIds : Len(hist[i]) >= 1 /\ hist[i][1].R > 0

\* C12: with an empty instruction sequence the run is idle at once: the one
\* cycle the loop runs finds no core active and the loop is left after it, no
\* core ever takes a turn, no slot is ever occupied, every register and PC
\* keeps its initial value and the stall counter stays 0.
C12_EmptyProgram ==
    (instructions = << >>) =>
        /\ \A i \in CoreIds : cores[i] = Core(i)
        /\ \A i \in CoreIds : ~SlotOccupied(i)
        /\ total_stalls = 0
        /\ ~InCoreTurn /\ pcl # "terminated"
        /\ total_cycles <= 1
        /\ (pcl = "head" /\ total_cycles = 1) => ~cores_active

C12_Witness ==
    /\ instructions = << >>
    /\ Halted
    /\ total_cycles = 1

(***************************************************************************)
(* The effect of one instruction in the Execute step.                      *)
(***************************************************************************)
\* the Execute block is about to apply the effect of the instruction in Execute
ApplyingAny ==
    /\ pcl = "ex"
    /\ execute_stage[cur].valid
    /\ execute_stage[cur].latency_counter <= 1

\* the instruction has the valid registers its opcode requires
RequiredValid(inst) ==
    CASE inst.opcode = "JAL" -> is_valid_register(inst.rd)
      [] inst.opcode = "BNE" -> is_valid_register(inst.rd) /\ is_valid_register(inst.rs1)
      [] inst.opcode \in {"ADD", "SUB"} ->
             /\ is_valid_register(inst.rd)
             /\ is_valid_register(inst.rs1)
             /\ is_valid_register(inst.rs2)
      [] inst.opcode = "SWAP" -> is_valid_register(inst.rs1) /\ is_valid_register(inst.rs2)
      [] OTHER -> FALSE

\* the step leaves every core but cur as it is
OtherCoresUnchanged ==
    \A j \in CoreIds \ {cur} :
        /\ cores'[j] = cores[j]
        /\ fetch_stage'[j] = fetch_stage[j]
        /\ decode_stage'[j] = decode_stage[j]
        /\ execute_stage'[j] = execute_stage[j]
        /\ memory_stage'[j] = memory_stage[j]
        /\ writeback_stage'[j] = writeback_stage[j]

\* C13: an instruction with an unknown opcode, or an ADD, SUB, SWAP, JAL or
\* BNE without a valid register it requires, changes no register of its core
\* when it executes, advances the PC by exactly 4 in the Execute step, raises
\* no error and leaves every other core as it is.
C13_NoEffectInstruction ==
    [][(ApplyingAny /\ ~RequiredValid(execute_stage[cur].instruction)) =>
          /\ cores'[cur].registers = cores[cur].registers
          /\ cores'[cur].pc = cores[cur].pc + 4
          /\ pcl' # "terminated"
          /\ OtherCoresUnchanged]_vars

\* a known opcode without a valid register it requires has just executed
C13_Witness ==
    /\ pcl = "dec"
    /\ memory_stage[cur].valid
    /\ LET inst == memory_stage[cur].instruction
       IN  /\ hist[cur][inst.uid].M = total_cycles
           /\ inst.opcode \in {"ADD", "SUB", "SWAP", "JAL", "BNE"}
           /\ ~RequiredValid(inst)

\* C17: executing ADD (SUB) with rd, rs1, rs2 valid sets registers[rd] to the
\* sum (difference) of registers[rs1] and registers[rs2] as they are at that
\* moment; executing SWAP with rs1, rs2 valid exchanges registers[rs1] and
\* registers[rs2]; every other register is unchanged and the PC advances by
\* exactly 4 in the Execute step.
C17_ArithmeticAndSwap ==
    [][(/\ ApplyingAny
        /\ execute_stage[cur].instruction.opcode \in {"ADD", "SUB", "SWAP"}
        /\ RequiredValid(execute_stage[cur].instruction)) =>
          LET inst == execute_stage[cur].instruction
              regs == cores[cur].registers
          IN  /\ cores'[cur].pc = cores[cur].pc + 4
              /\ \A r \in Regs :
                    cores'[cur].registers[r] =
                        CASE inst.opcode = "ADD" /\ r = inst.rd ->
                                 regs[inst.rs1] + regs[inst.rs2]
                          [] inst.opcode = "SUB" /\ r = inst.rd ->
                                 regs[inst.rs1] - regs[inst.rs2]
                          [] inst.opcode = "SWAP" /\ r = inst.rs1 -> regs[inst.rs2]
                          [] inst.opcode = "SWAP" /\ r = inst.rs2 /\ r # inst.rs1 ->
                                 regs[inst.rs1]
                          [] OTHER -> regs[r]]_vars

\* a SWAP of two registers of different content has just executed, after an
\* ADD had written one of them
C17_Witness ==
    /\ pcl = "dec"
    /\ memory_stage[cur].valid
    /\ LET inst == memory_stage[cur].instruction
       IN  /\ hist[cur][inst.uid].M = total_cycles
           /\ inst.opcode = "SWAP"
           /\ RequiredValid(inst)
           /\ inst.uid = 2
           /\ cores[cur].registers[inst.rs1] # cores[cur].registers[inst.rs2]

(***************************************************************************)
(* The value a consumer reads.                                             *)
(***************************************************************************)
\* every opcode of the simulator has latency 1 in the table
AllLatenciesOne ==
    \A op \in DOMAIN DefaultLatencies : instruction_latencies[op] = 1

\* the instruction record the u-th fetch of core i was given
InstOf(i, u) == Resolved[instructions[hist[i][u].line + 1]].instruction

\* the registers an instruction's effect reads
SourceRegisters(inst) ==
    {r \in ({inst.rs1, inst.rs2} \cup (IF inst.opcode = "BNE" THEN {inst.rd} ELSE {})) :
        is_valid_register(r)}

\* the registers an instruction's effect writes
WrittenRegisters(inst) ==
    IF ~RequiredValid(inst) THEN {}
    ELSE CASE inst.opcode \in {"ADD", "SUB", "JAL"} -> {inst.rd}
           [] inst.opcode = "SWAP" -> {inst.rs1, inst.rs2}
           [] OTHER -> {}

\* the instructions of core i fetched before the u-th that write register r
ProducersBefore(i, u, r) == {v \in 1 .. (u - 1) : r \in WrittenRegisters(InstOf(i, v))}

Latest(S) == CHOOSE m \in S : \A v \in S : v <= m

\* register r of core i holds what the latest producer fetched before the
\* u-th instruction wrote, or its initial value if there is no producer
ReadsLatest(i, u, r) ==
    IF ProducersBefore(i, u, r) = {}
    THEN cores[i].registers[r] = Core(i).registers[r]
    ELSE /\ hist[i][Latest(ProducersBefore(i, u, r))].applied = 1
         /\ hist[i][Latest(ProducersBefore(i, u, r))].after[r] = cores[i].registers[r]

\* C18: with forwarding enabled and all latencies 1, whenever an instruction's
\* effect is applied in Execute, each valid source register holds the value
\* written by the latest earlier-fetched instruction of the core that writes
\* it (its initial value if there is none), also when that producer is the
\* instruction fetched just before.
C18_ReadsLatestValue ==
    (ApplyingAny /\ forwarding_enabled /\ AllLatenciesOne) =>
        \A r \in SourceRegisters(execute_stage[cur].instruction) :
            ReadsLatest(cur, execute_stage[cur].instruction.uid, r)

\* a consumer is about to execute whose source was written, to a value other
\* than the initial one, by the instruction fetched just before it
C18_Witness ==
    /\ ApplyingAny
    /\ forwarding_enabled
    /\ AllLatenciesOne
    /\ LET inst == execute_stage[cur].instruction
       IN  /\ inst.uid = 2
           /\ is_valid_register(inst.rs1)
           /\ inst.rs1 \in WrittenRegisters(InstOf(cur, 1))
           /\ cores[cur].registers[inst.rs1] # Core(cur).registers[inst.rs1]
           /\ ReadsLatest(cur, 2, inst.rs1)

(***************************************************************************)
(* The new-instruction fetch and the isolation of the cores.               *)
(***************************************************************************)
\* C19: whenever a core that is not stalled and whose pc/4 indexes an existing
\* program line comes to the new-instruction fetch of its turn, its Fetch slot
\* is empty, the line at index pc/4 is placed into it, the instruction records
\* the PC before the fetch and the PC grows by exactly 4 in that step, whatever
\* the opcode; and every turn that is not stalled comes to that fetch.
C19_EagerFetch ==
    /\ [][(pcl = "newfetch" /\ ~cores[cur].stalled /\ ProgramTextLeft(cur)) =>
            /\ ~fetch_stage[cur].valid
            /\ fetch_stage'[cur].valid
            /\ fetch_stage'[cur].instruction.opcode =
                   instructions[TruncDiv(cores[cur].pc, 4) + 1].opcode
            /\ fetch_stage'[cur].instruction.pc = cores[cur].pc
            /\ cores'[cur].pc = cores[cur].pc + 4]_vars
    /\ [][pcl = "fetch" => (pcl' = "newfetch" \/ cores'[cur].stalled)]_vars

\* C20: a step of core i's turn changes the registers, PC, stall flag and
\* slots of no other core, and no turn, whatever operands, opcodes or end of
\* program it meets, keeps the cores after it from taking theirs: it always
\* hands over to the next core.
C20_CoreIsolation ==
    /\ [][(InCoreTurn \/ pcl = "test") => OtherCoresUnchanged]_vars
    /\ [][InCoreTurn => (pcl' \in {"wb", "mem", "ex", "dec", "fetch", "newfetch", "next"})]_vars

(***************************************************************************)
(* sort_memory(): the bubble sort of each core's memory partition.         *)
(***************************************************************************)
\* the contents a word is drawn from.  The sort looks at words only to
\* compare two of them, so what it does on any contents it does on their
\* image under a threshold: two values are enough
MemValues == {0, 1}

\* a partition start that is the same for every core
start_idx_Zero(core_id) == 0

\* int start_idx = core.core_id * (MEMORY_SIZE / NUM_CORES)
start_idx(core_id) == core_id * (MEMORY_SIZE \div NUM_CORES)

\* int end_idx = start_idx + (MEMORY_SIZE / NUM_CORES)
end_idx(core_id) == start_idx(core_id) + (MEMORY_SIZE \div NUM_CORES)

\* if (memory[j] > memory[j + 1]) swap(memory[j], memory[j + 1]); st holds
\* the memory and the indices touched so far
CompareExchange(st, j) ==
    [mem |-> IF st.mem[j] > st.mem[j + 1]
             THEN [st.mem EXCEPT ![j] = st.mem[j + 1], ![j + 1] = st.mem[j]]
             ELSE st.mem,
     touched |-> st.touched \cup {j, j + 1}]

\* for (int j = ...; j < bound; j++)
RECURSIVE InnerLoop(_, _, _)
InnerLoop(st, j, bound) ==
    IF j < bound THEN InnerLoop(CompareExchange(st, j), j + 1, bound) ELSE st

\* for (int i = start_idx; i < end_idx - 1; i++), the inner loop running j
\* from start_idx up to end_idx - (i - start_idx) - 1
RECURSIVE OuterLoop(_, _, _, _)
OuterLoop(st, i, first, last) ==
    IF i < last - 1
    THEN OuterLoop(InnerLoop(st, first, last - (i - first) - 1), i + 1, first, last)
    ELSE st

\* bubble_sort_memory(core) on memory mem
bubble_sort_memory(mem, core_id) ==
    OuterLoop([mem |-> mem, touched |-> {}], start_idx(core_id), start_idx(core_id),
              end_idx(core_id))

\* the state sort_memory() is called in, the memory holding any contents
SortInit ==
    /\ pcl = "sort"
    /\ cur = 0
    /\ cores = [i \in CoreIds |-> Core(i)]
    /\ instructions = << >>
    /\ fetch_stage = [i \in CoreIds |-> PipelineStage]
    /\ decode_stage = [i \in CoreIds |-> PipelineStage]
    /\ execute_stage = [i \in CoreIds |-> PipelineStage]
    /\ memory_stage = [i \in CoreIds |-> PipelineStage]
    /\ writeback_stage = [i \in CoreIds |-> PipelineStage]
    /\ instruction_latencies = DefaultLatencies
    /\ forwarding_enabled = TRUE
    /\ total_cycles = 0
    /\ total_stalls = 0
    /\ cores_active = FALSE
    /\ hist = [i \in CoreIds |-> << >>]
    /\ snap = Slots(0)
    /\ memory \in [MemIndex -> MemValues]
    /\ accessed = {}
    /\ token = << >>
    /\ outcome = Returned(0)
    /\ busy_cycles = 0

\* one round of for (auto &core : cores) bubble_sort_memory(core)
BubbleSortMemory ==
    /\ pcl = "sort"
    /\ memory' = bubble_sort_memory(memory, cores[cur].core_id).mem
    /\ accessed' = bubble_sort_memory(memory, cores[cur].core_id).touched
    /\ IF cur < NUM_CORES - 1
       THEN cur' = cur + 1 /\ pcl' = pcl
       ELSE cur' = cur /\ pcl' = "sorted"
    /\ UNCHANGED <<cores, stages, config, total_cycles, total_stalls, cores_active,
                   hist, snap, token, outcome, busy_cycles>>

SortNext == BubbleSortMemory

SortSpec == SortInit /\ [][SortNext]_vars

\* the indices of core i's partition
Partition(i) ==
    {k \in MemIndex : /\ i * (MEMORY_SIZE \div NUM_CORES) <= k
                      /\ k < (i + 1) * (MEMORY_SIZE \div NUM_CORES)}

\* C14: the sort of core i's partition reads and writes only indices of
\* [i*(SIZE/N), (i+1)*(SIZE/N)): every word outside that range has after the
\* sort the value it had before, for every core and every memory content.
C14_PartitionIsolation ==
    [][pcl = "sort" =>
          /\ accessed' \subseteq Partition(cur)
          /\ \A k \in MemIndex \ Partition(cur) : memory'[k] = memory[k]]_vars

\* core 1's partition has just been sorted, all of it was touched, and the
\* word before it is still larger than its first word
C14_Witness ==
    /\ pcl = "sort"
    /\ cur = 2
    /\ accessed = Partition(1)
    /\ memory[start_idx(1) - 1] > memory[start_idx(1)]
    /\ \A k \in Partition(1) \ {start_idx(1)} : memory[k - 1] <= memory[k]
    /\ \E k \in Partition(1) : memory[k] = 1

(***************************************************************************)
(* The operand resolver called on one token.                               *)
(***************************************************************************)
TokenPrefixes ==
    {<< >>, <<"x">>, <<"x", "-">>, <<"-">>, <<"0", "x">>, <<"0", "X">>,
     <<"0", "b">>, <<"0", "B">>}

\* n binary digits 1
Ones(n) == [k \in 1 .. n |-> "1"]

TokenBodies ==
    {<< >>, Ones(31), Ones(32),
     <<"0">>,
     <<"5">>,
     <<"3", "1">>,
     <<"3", "2">>,
     <<"1", "0", "1">>,
     <<"1", "2", "3">>,
     <<"1", "A">>,
     <<"a", "b", "c">>,
     <<"z", "z">>,
     <<"2", "1", "4", "7", "4", "8", "3", "6", "4", "7">>,
     <<"2", "1", "4", "7", "4", "8", "3", "6", "4", "8">>,
     <<"9", "9", "9", "9", "9", "9", "9", "9", "9", "9", "9">>,
     <<"7", "F", "F", "F", "F", "F", "F", "F">>,
     <<"8", "0", "0", "0", "0", "0", "0", "0">>}

TokenSuffixes == {<< >>, <<"a">>, <<"g">>}

\* the tokens the resolver is called on: "", "x5", "x32", "x-1", "abc",
\* "0x1A", "0b101", "123", "x5a", "x2147483648", ...
Tokens ==
    {pre \o body \o suf :
        pre \in TokenPrefixes, body \in TokenBodies, suf \in TokenSuffixes}

\* a call of the resolver is about to be made on some token
ParseInit ==
    /\ pcl = "parse"
    /\ cur = 0
    /\ cores = [i \in CoreIds |-> Core(i)]
    /\ instructions = << >>
    /\ fetch_stage = [i \in CoreIds |-> PipelineStage]
    /\ decode_stage = [i \in CoreIds |-> PipelineStage]
    /\ execute_stage = [i \in CoreIds |-> PipelineStage]
    /\ memory_stage = [i \in CoreIds |-> PipelineStage]
    /\ writeback_stage = [i \in CoreIds |-> PipelineStage]
    /\ instruction_latencies = DefaultLatencies
    /\ forwarding_enabled = TRUE
    /\ total_cycles = 0
    /\ total_stalls = 0
    /\ cores_active = FALSE
    /\ hist = [i \in CoreIds |-> << >>]
    /\ snap = Slots(0)
    /\ memory = [k \in MemIndex |-> 0]
    /\ accessed = {}
    /\ token \in Tokens
    /\ outcome = Returned(0)
    /\ busy_cycles = 0

\* int rd = extract_reg_index(arg)
ExtractRegIndex ==
    /\ pcl = "parse"
    /\ outcome' = extract_reg_index(token)
    /\ pcl' = "reg"
    /\ UNCHANGED <<cur, cores, stages, config, total_cycles, total_stalls, cores_active,
                   hist, snap, memory, accessed, token, busy_cycles>>

\* int imm = parse_immediate(arg)
ParseImmediate ==
    /\ pcl = "parse"
    /\ outcome' = parse_immediate(token)
    /\ pcl' = "imm"
    /\ UNCHANGED <<cur, cores, stages, config, total_cycles, total_stalls, cores_active,
                   hist, snap, memory, accessed, token, busy_cycles>>

ParseNext == ExtractRegIndex \/ ParseImmediate

ParseSpec == ParseInit /\ [][ParseNext]_vars

DigitChar(d) == <<"0", "1", "2", "3", "4", "5", "6", "7", "8", "9">>[d + 1]

\* "x" followed by the decimal numeral of n, for n in 0 .. 31
RegisterToken(n) ==
    <<"x">> \o (IF n < 10 THEN <<DigitChar(n)>>
                ELSE <<DigitChar(n \div 10), DigitChar(n % 10)>>)

\* C15: register-token parsing is total and exact: the resolver returns n for
\* the token "x" followed by an integer n of 0 .. 31, the invalid sentinel for
\* every other token ("x32", "x-1", "abc", a non-numeric suffix, a number out
\* of range of any size), and never raises an error.
C15_RegisterTokenExact ==
    pcl = "reg" =>
        /\ ~outcome.thrown
        /\ \A n \in Regs : token = RegisterToken(n) => outcome.val = n
        /\ (\A n \in Regs : token # RegisterToken(n)) => outcome.val = -1

\* the base the form of an immediate token selects
TokenBase(tok) ==
    IF Len(tok) > 2 /\ tok[1] = "0" /\ tok[2] \in {"x", "X"} THEN 16
    ELSE IF Len(tok) > 2 /\ tok[1] = "0" /\ tok[2] \in {"b", "B"} THEN 2
    ELSE 10

TokenNegative(tok) == TokenBase(tok) = 10 /\ Len(tok) >= 1 /\ tok[1] = "-"

\* the numeral of an immediate token: what follows the base prefix or the sign
Numeral(tok) == 
    IF TokenBase(tok) # 10 THEN Tail(Tail(tok))
    ELSE IF TokenNegative(tok) THEN Tail(tok) ELSE tok

WellFormed(d, base) == d # << >> /\ \A k \in 1 .. Len(d) : CharVal(d[k]) < base

\* no digit of the base at the start: numeric parsing fails
Garbage(d, base) == d = << >> \/ CharVal(d[1]) >= base

\* numerals short enough for every value to fit an int
ShortNumeral(d, base) ==
    Len(d) <= (CASE base = 16 -> 7 [] base = 2 -> 30 [] OTHER -> 9)

\* numerals of the token set whose value, taken positive, no int holds
TooLarge(d, base) ==
    \/ base = 10 /\ d \in {<<"2", "1", "4", "7", "4", "8", "3", "6", "4", "8">>, <<"9", "9", "9", "9", "9", "9", "9", "9", "9", "9", "9">>}
    \/ base = 16 /\ d = <<"8", "0", "0", "0", "0", "0", "0", "0">>
    \/ base = 2 /\ d = Ones(32)

RECURSIVE PlainValue(_, _)
PlainValue(d, base) ==
    IF d = << >> THEN 0
    ELSE PlainValue(SubSeq(d, 1, Len(d) - 1), base) * base + CharVal(d[Len(d)])

\* what C16 requires of the value val resolved from token tok
ClaimedImmediate(tok, val) ==
    IF tok = << >> \/ Garbage(Numeral(tok), TokenBase(tok)) THEN val = 0
    ELSE IF TooLarge(Numeral(tok), TokenBase(tok)) /\ ~TokenNegative(tok) THEN val = 0
    ELSE IF WellFormed(Numeral(tok), TokenBase(tok))
            /\ ShortNumeral(Numeral(tok), TokenBase(tok))
         THEN val = (IF TokenNegative(tok) THEN 0 - PlainValue(Numeral(tok), 10)
                     ELSE PlainValue(Numeral(tok), TokenBase(tok)))
         ELSE TRUE

\* C16: immediate-token parsing is total and exact: a token with 0x/0X and
\* length > 2 is read as hexadecimal, one with 0b/0B and length > 2 as binary,
\* any other as decimal, the empty token gives 0, and a token that fails
\* numeric parsing under its base (garbage, or a number too large to
\* represent) gives 0; no token raises an error.
C16_ImmediateExact ==
    pcl = "imm" =>
        /\ ~outcome.thrown
        /\ ClaimedImmediate(token, outcome.val)

(***************************************************************************)
(* The shared memory during the run.                                       *)
(***************************************************************************)
\* the memory the constructor leaves: MEMORY_SIZE words of 0
InitialMemory == [k \in MemIndex |-> 0]

\* C21: instruction execution never writes memory: whatever the program, the
\* latency table and the forwarding setting, every word of the shared memory
\* holds in every state of the run the value it had before the run; the call
\* of memory_access in the Memory block leaves each word as it was.
C21_MemoryNeverWritten ==
    /\ [](memory = InitialMemory)
    /\ [][\A k \in MemIndex : memory'[k] = memory[k]]_vars

\* an instruction with a valid destination has had its effect applied, has
\* passed the Memory block and has been retired on the last core
C21_Witness ==
    /\ Halted
    /\ memory = InitialMemory
    /\ \E u \in DOMAIN hist[NUM_CORES - 1] :
          /\ hist[NUM_CORES - 1][u].applied > 0
          /\ hist[NUM_CORES - 1][u].W > 0
          /\ hist[NUM_CORES - 1][u].R > 0
          /\ cores[NUM_CORES - 1].registers[4] # 0

PromotedUnder(i, fwd) ==
    IF fwd THEN perform_data_forwarding(i) ELSE decode_stage[i].instruction

\* the operand comparison of the hazard check, the switch left out
Collides(decode_inst, stage) ==
    /\ stage.valid
    /\ stage.instruction.rd # -1
    /\ (decode_inst.rs1 = stage.instruction.rd \/ decode_inst.rs2 = stage.instruction.rd)

\* the answer of the hazard check for core i when the switch is fwd
StallUnder(i, fwd) ==
    /\ decode_stage[i].valid
    /\ fwd = FALSE
    /\ \/ Collides(decode_stage[i].instruction, execute_stage[i])
       \/ Collides(decode_stage[i].instruction, memory_stage[i])
       \/ Collides(decode_stage[i].instruction, writeback_stage[i])

InProgram(pc) == 0 - 3 <= pc /\ pc <= 4 * Len(instructions) - 1

\* the index pc/4 of a PC in that range
IndexOf(pc) == CHOOSE q \in 0 .. Len(instructions) : 4 * q - 3 <= pc /\ pc <= 4 * q + 3

\* C24: fetch never reads outside the program.  Also after JAL and BNE have
\* moved the PC to a negative value, to a value that is no multiple of 4, or
\* past the end, an instruction is fetched only when 0 <= pc/4 < L (pc/4
\* truncating toward zero), the index used into the instruction sequence is
\* pc/4 and lies in 0 .. L-1, and a core whose PC is out of that range fetches
\* nothing.
C24_FetchInsideProgram ==
    /\ []((pcl = "newfetch" /\ ~cores[cur].stalled /\ HasText(cores[cur].pc)) =>
             /\ InProgram(cores[cur].pc)
             /\ TruncDiv(cores[cur].pc, 4) = IndexOf(cores[cur].pc)
             /\ TruncDiv(cores[cur].pc, 4) + 1 \in DOMAIN instructions)
    /\ [](\A i \in CoreIds : \A u \in DOMAIN hist[i] :
             hist[i][u].line + 1 \in DOMAIN instructions)
    /\ [][(pcl = "newfetch" /\ ~InProgram(cores[cur].pc)) =>
             /\ fetch_stage' = fetch_stage
             /\ hist' = hist
             /\ cores' = cores]_vars
    /\ [][(pcl = "newfetch" /\ fetch_stage'[cur] # fetch_stage[cur]) =>
             /\ InProgram(cores[cur].pc)
             /\ Len(hist'[cur]) = Len(hist[cur]) + 1
             /\ hist'[cur][Len(hist'[cur])].line = IndexOf(cores[cur].pc)
             /\ fetch_stage'[cur].instruction.opcode =
                    instructions[IndexOf(cores[cur].pc) + 1].opcode
             /\ fetch_stage'[cur].instruction.pc = cores[cur].pc]_vars
    /\ [][fetch_stage' # fetch_stage => pcl \in {"fetch", "newfetch"}]_vars

\* a taken backward branch has left a negative PC that is no multiple of 4,
\* and the line at index 0 has just been fetched from it
C24_Witness ==
    /\ pcl = "next"
    /\ fetch_stage[cur].valid
    /\ fetch_stage[cur].instruction.pc < 0
    /\ fetch_stage[cur].instruction.pc % 4 # 0
    /\ hist[cur][fetch_stage[cur].instruction.uid].line = 0
    /\ hist[cur][fetch_stage[cur].instruction.uid].F = total_cycles

\* a taken backward branch has left a PC whose quotient is negative, and the
\* core has passed its fetch step without fetching
C24_WitnessOutside ==
    /\ pcl = "next"
    /\ cores[cur].pc < 0 - 3
    /\ ~fetch_stage[cur].valid
    /\ memory_stage[cur].valid

(***************************************************************************)
(* Cycle accounting.                                                       *)
(***************************************************************************)
\* the two-instruction programs ADD; SUB of the model
AddSubProgram ==
    /\ Len(instructions) = 2
    /\ instructions[1].opcode = "ADD"
    /\ instructions[2].opcode = "SUB"
    /\ \A k \in 1 .. 2 : ~Resolved[instructions[k]].thrown

\* C25: the cycle counter is incremented exactly once per iteration of the
\* global loop, for all cores together, the final iteration that only finds
\* no core active included; at halt total_cycles is 1 + the number of cycles
\* in which at least one core was active: 1 for the empty program, 8 for the
\* program ADD; SUB with default latencies.
C25_CycleAccounting ==
    /\ [](pcl = "head" =>
             total_cycles = busy_cycles + (IF cores_active THEN 0 ELSE 1))
    /\ [](Halted => total_cycles = 1 + busy_cycles)
    /\ []((Halted /\ instructions = << >>) => total_cycles = 1)
    /\ []((Halted /\ AddSubProgram /\ DefaultLatency) => total_cycles = 8)
    /\ [][(pcl = "head" /\ pcl' = "test") => total_cycles' = total_cycles + 1]_vars
    /\ [][total_cycles' # total_cycles => (pcl = "head" /\ pcl' = "test")]_vars
    /\ [][pcl' = "head" => (pcl = "config" \/ (pcl = "next" /\ cur = NUM_CORES - 1))]_vars

\* a run of ADD; SUB with default latencies and forwarding disabled has
\* halted after seven busy cycles and the idle one
C25_Witness ==
    /\ Halted
    /\ AddSubProgram
    /\ DefaultLatency
    /\ ~forwarding_enabled
    /\ busy_cycles = 7
    /\ total_cycles = 8

====
